---- MODULE Spec2Model ----
(***************************************************************************)
(* gluon_news (src/main.rs): fetch_news, the concurrent fetch / decode /   *)
(* parse / merge / sort pipeline, and App, the dioxus component that runs  *)
(* one fetch cycle per value of its refresh counter and renders the        *)
(* result.                                                                 *)
(*                                                                         *)
(* Strings are sequences of one-character strings.  Timestamps are         *)
(* integers (seconds from the epoch); DateTime::default() is the epoch.    *)
(***************************************************************************)
EXTENDS Integers, Sequences, FiniteSets, TLC

VARIABLES
    urls,         \* SETTINGS.feeds, the source list
    count,        \* use_state counter of App
    needs_regen,  \* use_future: no future was created yet
    deps,         \* use_future: the dependency (count) of the last future
    task,         \* use_future: the running future's id, 0 when none
    value,        \* use_future: future.value()
    dirty,        \* the scope is scheduled for a render
    view,         \* what App rendered last
    cyc,          \* the futures created so far, one fetch cycle each
    gen           \* the number of futures created

vars == <<urls, count, needs_regen, deps, task, value, dirty, view, cyc, gen>>

---------------------------------------------------------------------------
(* Bounds *)

MaxUrls == 2
MaxRefresh == 2
MaxPad == 4
MaxTitleLen == 102

MaxCycles == MaxRefresh + 1

---------------------------------------------------------------------------
(* Option, Result *)

None == [some |-> FALSE]
Some(x) == [some |-> TRUE, val |-> x]

Err == [ok |-> FALSE]
Ok(x) == [ok |-> TRUE, val |-> x]

\* What task.await yields for a spawned request: Err(JoinError) when the
\* task panicked or was cancelled, otherwise the result of send().
JoinErr == [joined |-> FALSE]
Joined(r) == [joined |-> TRUE, val |-> r]

\* Mutant: collects up to the first Err only
RECURSIVE FilterOk_UntilFirstErr(_)
FilterOk_UntilFirstErr(s) ==
    IF s = <<>> THEN <<>>
    ELSE IF Head(s).ok THEN <<Head(s).val>> \o FilterOk_UntilFirstErr(Tail(s))
    ELSE <<>>

\* iter.filter_map(|r| r.ok()).collect()
RECURSIVE FilterOk(_)
FilterOk(s) ==
    IF s = <<>> THEN <<>>
    ELSE IF Head(s).ok THEN <<Head(s).val>> \o FilterOk(Tail(s))
    ELSE FilterOk(Tail(s))

---------------------------------------------------------------------------
(* Strings *)

NA == <<"N", "/", "A">>
HREF == <<"h", "r", "e", "f">>
TitleMax == 100

\* Mutant: one character too many
Take_OneMore(s, n) == SubSeq(s, 1, IF Len(s) < n + 1 THEN Len(s) ELSE n + 1)

\* s.chars().take(n).collect::<String>()
Take(s, n) == SubSeq(s, 1, IF Len(s) < n THEN Len(s) ELSE n)

\* s.replace("href", ""): one left-to-right scan, every non-overlapping
\* match dropped, the scan resuming right after the match
RECURSIVE Replace(_)
Replace(s) ==
    IF Len(s) < Len(HREF) THEN s
    ELSE IF SubSeq(s, 1, Len(HREF)) = HREF
         THEN Replace(SubSeq(s, Len(HREF) + 1, Len(s)))
         ELSE <<Head(s)>> \o Replace(Tail(s))

---------------------------------------------------------------------------
(* feed_rs documents, responses, request outcomes *)

\* feed_rs::model::Entry, the fields the program reads: title and summary
\* are Option<Text> (the content), links the hrefs, published an
\* Option<DateTime<Utc>>
MkEntry(id, title, summary, links, published) ==
    [id |-> id, title |-> title, summary |-> summary, links |-> links,
     published |-> published]

\* feed_rs::model::Feed
MkFeed(title, entries) == [title |-> title, entries |-> entries]

\* A body text: a well-formed syndication document, or anything else
Garbage == [wellformed |-> FALSE]
Document(feed) == [wellformed |-> TRUE, feed |-> feed]

\* parser::parse(t.as_bytes())
Parse(t) == IF t.wellformed THEN Ok(t.feed) ELSE Err

\* A reqwest::Response: a body whose bytes decode to a text, or one whose
\* read / decode fails
Undecodable == [decodable |-> FALSE]
TextBody(t) == [decodable |-> TRUE, text |-> t]

\* r.text().await
TextOf(r) == IF r.decodable THEN Ok(r.text) ELSE Err

EntryA1 == MkEntry("a1", Some(<<"a">>), Some(<<"s", " ">> \o HREF), <<<<"l", "1">>, <<"l", "2">>>>, Some(1))
EntryA2 == MkEntry("a2", None, None, <<>>, Some(2))
EntryB1 == MkEntry("b1", Some(<<"b">>), None, <<<<"l", "3">>>>, None)
EntryB2 == MkEntry("b2", None, Some(<<"t">>), <<>>, Some(2))
EntryB3 == MkEntry("b3", Some(<<"c">>), Some(HREF), <<>>, Some(0))

FeedA == MkFeed(Some(<<"A">>), <<EntryA1, EntryA2>>)
FeedB == MkFeed(None, <<EntryB1, EntryB2, EntryB3>>)
FeedEmpty == MkFeed(Some(<<"E">>), <<>>)

\* settings.json's feeds: fetch_news never looks into a url, and a request's
\* fate is drawn per position of the list, so one list of each length
\* stands for all of them; the second url repeats the first
FeedUrl(i) == IF i % 3 = 0 THEN "u2" ELSE "u1"

SourceLists == {[i \in 1..n |-> FeedUrl(i)] : n \in 0..MaxUrls}

Responses ==
    {Undecodable, TextBody(Garbage), TextBody(Document(FeedA)),
     TextBody(Document(FeedB)), TextBody(Document(FeedEmpty))}

\* Every fate of one spawned request
Outcomes == {JoinErr, Joined(Err)} \cup {Joined(Ok(r)) : r \in Responses}

\* The fates the App-level specification draws from
AppOutcomes ==
    {JoinErr, Joined(Err), Joined(Ok(TextBody(Garbage))),
     Joined(Ok(TextBody(Document(FeedA))))}

---------------------------------------------------------------------------
(* Documents for the rendering specification: one feed of one entry, its
   fields drawn from wider sets *)

RECURSIVE SeqsUpTo(_, _)
SeqsUpTo(S, n) ==
    IF n = 0 THEN {<<>>}
    ELSE LET shorter == SeqsUpTo(S, n - 1)
         IN  shorter \cup {Append(s, x) : s \in shorter, x \in S}

Alphabet == {"h", "r", "e", "f", " "}

InsertAt(s, k, t) == SubSeq(s, 1, k) \o t \o SubSeq(s, k + 1, Len(s))

\* Every string of at most MaxPad characters, and each of them with one
\* more "href" put in at any place
Summaries ==
    LET short == SeqsUpTo(Alphabet, MaxPad)
    IN  short \cup UNION {{InsertAt(s, k, HREF) : k \in 0..Len(s)} : s \in short}

SeeHrefHere == <<"s", "e", "e", " ", "h", "r", "e", "f", " ", "h", "e", "r", "e">>

Digits == <<"0", "1", "2", "3", "4", "5", "6", "7", "8", "9">>

\* A title of n characters, no two neighbours alike
TitleOfLen(n) == [i \in 1..n |-> Digits[(i % 10) + 1]]

PlainEntry == MkEntry("w", Some(<<"t">>), Some(<<"s">>), <<<<"l">>>>, Some(1))

SummaryEntries ==
    {[PlainEntry EXCEPT !.summary = Some(s)] : s \in Summaries \cup {SeeHrefHere}}

FieldEntries ==
    {MkEntry("w", t, s, l, p) :
        t \in {None, Some(<<>>), Some(NA), Some(<<"t">>)},
        s \in {None, Some(<<>>), Some(NA), Some(HREF)},
        l \in {<<>>, <<<<"l", "1">>>>, <<<<"l", "1">>, <<"l", "2">>>>, <<<<>>, <<"l">>>>},
        p \in {None, Some(0), Some(1), Some(-1)}}

WideFeeds ==
    {MkFeed(Some(<<"T">>), <<e>>) : e \in SummaryEntries \cup FieldEntries}
    \cup {MkFeed(None, <<e>>) : e \in FieldEntries}
    \cup {MkFeed(Some(TitleOfLen(n)), <<PlainEntry>>) : n \in 0..MaxTitleLen}

WideOutcomes == {Joined(Ok(TextBody(Document(f)))) : f \in WideFeeds}

---------------------------------------------------------------------------
(* fetch_news: the synchronous tail, lines 69-95 *)

PublishedOrDefault(e) == IF e.published.some THEN e.published.val ELSE 0

Cmp(x, y) == IF x < y THEN -1 ELSE IF x > y THEN 1 ELSE 0

\* Mutant: a compared to b, which sorts ascending
EntryCmp_Ascending(a, b) == Cmp(PublishedOrDefault(a[2]), PublishedOrDefault(b[2]))

\* The comparator of entries.sort_by, on (feed_title, entry) pairs
EntryCmp(a, b) == Cmp(PublishedOrDefault(b[2]), PublishedOrDefault(a[2]))

\* Mutant: an unstable sort, x goes before the elements equal to it
RECURSIVE InsertSorted_BeforeEqual(_, _)
InsertSorted_BeforeEqual(x, s) ==
    IF s = <<>> THEN <<x>>
    ELSE IF EntryCmp(Head(s), x) >= 0 THEN <<x>> \o s
    ELSE <<Head(s)>> \o InsertSorted_BeforeEqual(x, Tail(s))

\* slice::sort_by is a stable sort: x goes after every element that does
\* not compare Greater than it
RECURSIVE InsertSorted(_, _)
InsertSorted(x, s) ==
    IF s = <<>> THEN <<x>>
    ELSE IF EntryCmp(Head(s), x) = 1 THEN <<x>> \o s
    ELSE <<Head(s)>> \o InsertSorted(x, Tail(s))

RECURSIVE SortEntries(_)
SortEntries(s) ==
    IF s = <<>> THEN <<>>
    ELSE InsertSorted(s[Len(s)], SortEntries(SubSeq(s, 1, Len(s) - 1)))

FeedTitle(feed) == IF feed.title.some THEN feed.title.val ELSE NA

\* Mutant: the first entry of every feed is left out
RECURSIVE FlattenFeeds_SkipFirst(_)
FlattenFeeds_SkipFirst(feeds) ==
    IF feeds = <<>> THEN <<>>
    ELSE LET feed == Head(feeds)
         IN  [k \in 1..(Len(feed.entries) - 1) |->
                 <<FeedTitle(feed), feed.entries[k + 1]>>]
             \o FlattenFeeds_SkipFirst(Tail(feeds))

\* for feed in feeds { for entry in feed.entries { entries.push(..) } }
RECURSIVE FlattenFeeds(_)
FlattenFeeds(feeds) ==
    IF feeds = <<>> THEN <<>>
    ELSE LET feed == Head(feeds)
         IN  [k \in 1..Len(feed.entries) |-> <<FeedTitle(feed), feed.entries[k]>>]
             \o FlattenFeeds(Tail(feeds))

ParseAll(texts) == FilterOk([j \in 1..Len(texts) |-> Parse(texts[j])])

\* Mutant: no is_empty() check before the sort
Aggregate_NoEmptyCheck(texts) == Some(SortEntries(FlattenFeeds(ParseAll(texts))))

\* From the decoded texts to the value fetch_news returns
Aggregate(texts) ==
    LET entries == FlattenFeeds(ParseAll(texts))
    IN  IF entries = <<>> THEN None ELSE Some(SortEntries(entries))

---------------------------------------------------------------------------
(* fetch_news as a future: its state between polls *)

\* pc: where the future stands ("spawn", "await", "decode", then "done",
\*   "panicked" or "dropped"); req: the spawned tasks, by position of the
\*   source list, each "idle", "pending", "done" (ended, with its output) or
\*   "joined" (awaited); next: the loop index; outputs, dec: the locals of
\*   lines 59 and 64; result: the value returned; ended: the positions in the
\*   order their tasks ended; detached: how many requests of a dropped
\*   future still run
NoOutput == [none |-> TRUE]

\* No future yet
IdleCycle ==
    [pc |-> "idle", req |-> <<>>, next |-> 0, outputs |-> <<>>, dec |-> <<>>,
     result |-> None, ended |-> <<>>, detached |-> 0, sent |-> <<>>]

\* Mutant: a url listed twice gets one request
RECURSIVE Distinct(_)
Distinct(feeds) ==
    IF feeds = <<>> THEN <<>>
    ELSE LET front == Distinct(SubSeq(feeds, 1, Len(feeds) - 1))
             last == feeds[Len(feeds)]
         IN  IF \E k \in 1..Len(front) : front[k] = last
             THEN front ELSE Append(front, last)

NewFuture_Dedup(feeds) ==
    [pc |-> "spawn",
     req |-> [i \in 1..Len(Distinct(feeds)) |->
                [st |-> "idle", out |-> NoOutput, url |-> Distinct(feeds)[i]]],
     next |-> 1, outputs |-> <<>>, dec |-> <<>>, result |-> None,
     ended |-> <<>>, detached |-> 0, sent |-> <<>>]

\* The future use_future creates from fetch_news(&feeds): nothing has run
\* yet, the first poll enters the spawn loop
NewFuture(feeds) ==
    [pc |-> "spawn",
     req |-> [i \in 1..Len(feeds) |->
                [st |-> "idle", out |-> NoOutput, url |-> feeds[i]]],
     next |-> 1, outputs |-> <<>>, dec |-> <<>>, result |-> None,
     ended |-> <<>>, detached |-> 0, sent |-> <<>>]

\* Mutant: the replaced future is left running
Cancel_KeepRunning(cy) == cy

\* cx.remove_future(task): the future is dropped with its locals (the join
\* handles, the collected outputs, the responses being decoded); the spawned
\* requests still running are detached and run on
Cancel(cy) ==
    [pc |-> "dropped", req |-> <<>>, next |-> 0, outputs |-> <<>>,
     dec |-> <<>>, result |-> None, ended |-> <<>>,
     detached |-> Cardinality({i \in 1..Len(cy.req) : cy.req[i].st = "pending"}),
     sent |-> cy.sent]

\* A future that ended is freed when use_future replaces it
Retire(cy) ==
    IF cy.pc = "done"
    THEN [cy EXCEPT !.req = <<>>, !.next = 0, !.result = None, !.ended = <<>>,
                    !.dec = <<>>]
    ELSE cy

\* Lines 69-95, then `Some(entries)` / `None` is the future's output
Finished(cy, texts) ==
    [cy EXCEPT !.pc = "done", !.result = Aggregate(texts), !.outputs = <<>>]

\* Lines 63-65: the Ok responses, and join_all over their text() futures;
\* join_all of no future is ready at once
BeginDecode(cy) ==
    LET responses == FilterOk(cy.outputs)
    IN  IF responses = <<>>
        THEN Finished(cy, <<>>)
        ELSE [cy EXCEPT !.pc = "decode", !.outputs = <<>>,
                        !.dec = [j \in 1..Len(responses) |->
                                   [resp |-> responses[j], done |-> FALSE]]]

\* Mutant: the loop is left at the first output
AfterJoin_FirstOutput(cy) ==
    IF Len(cy.outputs) >= 1 \/ Len(cy.req) = 0 THEN BeginDecode(cy) ELSE cy

\* The end of the loop of lines 60-62
AfterJoin(cy) ==
    IF Len(cy.outputs) = Len(cy.req) THEN BeginDecode(cy) ELSE cy

\* Mutant: the outputs are taken as the tasks end, not in list order
AwaitIndex_AnyEnded(cy) ==
    IF \E i \in 1..Len(cy.req) : cy.req[i].st = "done"
    THEN CHOOSE i \in 1..Len(cy.req) : cy.req[i].st = "done"
    ELSE cy.next

\* `for task in tasks { task.await }`: the handle awaited next
AwaitIndex(cy) == cy.next

\* Mutant: join_all is left at the first text() future that is done
AllDecoded_Any(dec) == \E k \in 1..Len(dec) : dec[k].done

\* join_all(..).await of line 65 is ready when every text() future is done
AllDecoded(dec) == \A k \in 1..Len(dec) : dec[k].done

\* Lines 64-68, once every text() future is done
DecodedTexts(dec) == FilterOk([j \in 1..Len(dec) |-> TextOf(dec[j].resp)])

Crashed == \E c \in 1..MaxCycles : cyc[c].pc = "panicked"

\* The UI thread is not inside a poll (the spawn loop has no await)
UIIdle == \A c \in 1..MaxCycles : cyc[c].pc # "spawn"

\* A cycle is in flight from the creation of its future to its output
InFlight(c) == cyc[c].pc \in {"spawn", "await", "decode"}

---------------------------------------------------------------------------
(* App: the view *)

Blank == [kind |-> "blank", refresh |-> FALSE, items |-> <<>>]
Loading == [kind |-> "loading", refresh |-> FALSE, items |-> <<>>]
\* Mutant: the Refresh button is rendered with the message too
Unavailable_WithRefresh == [kind |-> "unavailable", refresh |-> TRUE, items |-> <<>>]

Unavailable == [kind |-> "unavailable", refresh |-> FALSE, items |-> <<>>]

\* Mutant: an absent field is rendered as the empty string
EntryPropsOf_EmptyFallback(e) ==
    [title |-> IF e[2].title.some THEN e[2].title.val ELSE <<>>,
     summary |-> IF e[2].summary.some THEN Replace(e[2].summary.val) ELSE <<>>,
     link |-> IF Len(e[2].links) > 0 THEN e[2].links[1] ELSE <<>>,
     category |-> Take(e[1], TitleMax),
     published |-> PublishedOrDefault(e[2])]

\* The props of one Entry element, lines 142-157
EntryPropsOf(e) ==
    [title |-> IF e[2].title.some THEN e[2].title.val ELSE NA,
     summary |-> IF e[2].summary.some THEN Replace(e[2].summary.val) ELSE NA,
     link |-> IF Len(e[2].links) > 0 THEN e[2].links[1] ELSE NA,
     category |-> Take(e[1], TitleMax),
     published |-> PublishedOrDefault(e[2])]

\* Mutant: the arms of no value and of None are swapped
ViewOf_ArmsSwapped(v) ==
    IF ~v.some THEN Unavailable
    ELSE IF ~v.val.some THEN Loading
    ELSE [kind |-> "entries", refresh |-> TRUE,
          items |-> [k \in 1..Len(v.val.val) |-> EntryPropsOf(v.val.val[k])]]

\* match future.value() { .. }, lines 130-172
ViewOf(v) ==
    IF ~v.some THEN Loading
    ELSE IF ~v.val.some THEN Unavailable
    ELSE [kind |-> "entries", refresh |-> TRUE,
          items |-> [k \in 1..Len(v.val.val) |-> EntryPropsOf(v.val.val[k])]]

---------------------------------------------------------------------------
(* Actions *)

Init ==
    /\ urls \in SourceLists
    /\ count = 0
    /\ needs_regen = TRUE
    /\ deps = 0
    /\ task = 0
    /\ value = None
    /\ dirty = TRUE
    /\ view = Blank
    /\ cyc = [c \in 1..MaxCycles |-> IdleCycle]
    /\ gen = 0

\* Mutant: the future is re-created at every run of App
DepsChanged_Always == TRUE

\* use_future(cx, (count,), ..): the future is created at the first run of
\* App and re-created when the dependency differs from its last value
DepsChanged == needs_regen \/ deps # count

\* One run of App: use_future re-creates the future when the counter
\* changed (dropping the one that runs), then the view is built from
\* future.value()
Render ==
    /\ dirty
    /\ ~Crashed
    /\ UIIdle
    /\ IF DepsChanged
       THEN /\ gen' = gen + 1
            /\ task' = gen + 1
            /\ deps' = count
            /\ needs_regen' = FALSE
            /\ cyc' = [c \in 1..MaxCycles |->
                         IF c = gen + 1 THEN NewFuture(urls)
                         ELSE IF c = task THEN Cancel(cyc[c])
                         ELSE Retire(cyc[c])]
       ELSE UNCHANGED <<gen, task, deps, needs_regen, cyc>>
    /\ view' = ViewOf(value)
    /\ dirty' = FALSE
    /\ UNCHANGED <<urls, count, value>>

\* onclick of the Refresh button: count += 1; the handler marks the scope
\* dirty and App runs again before the next click is handled
Click ==
    /\ ~Crashed
    /\ UIIdle
    /\ view.refresh
    /\ deps = count
    /\ count < MaxRefresh
    /\ count' = count + 1
    /\ dirty' = TRUE
    /\ UNCHANGED <<urls, needs_regen, deps, task, value, view, cyc, gen>>

\* The future of cycle c moved to `new`; when that is its end, use_future
\* stores the output and schedules a render
Commit(c, new) ==
    /\ cyc' = [cyc EXCEPT ![c] = new]
    /\ IF new.pc = "done"
       THEN /\ value' = Some(new.result)
            /\ task' = 0
            /\ dirty' = TRUE
       ELSE UNCHANGED <<value, task, dirty>>
    /\ UNCHANGED <<urls, count, needs_regen, deps, view, gen>>

\* Lines 54-58: one iteration of the spawn loop (with no url, the whole
\* function runs through in the first poll); `sent` records the
\* client.get(url).send() of the spawned task
Spawn(c) ==
    LET cy == cyc[c]
        n == Len(cy.req)
        i == cy.next
    IN  /\ ~Crashed
        /\ cy.pc = "spawn"
        /\ Commit(c,
             IF n = 0 THEN AfterJoin([cy EXCEPT !.pc = "await"])
             ELSE [cy EXCEPT !.req[i].st = "pending",
                             !.sent = Append(@, cy.req[i].url),
                             !.pc = IF i = n THEN "await" ELSE "spawn",
                             !.next = IF i = n THEN 1 ELSE i + 1])

\* Mutant: a request runs once the requests before it have ended
Running_InTurn(cy, i) ==
    /\ cy.req[i].st = "pending"
    /\ \A k \in 1..(i - 1) : cy.req[k].st # "pending"

\* tokio::spawn: the task of request i runs on the runtime from its spawn
\* to its end, on its own
Running(cy, i) == cy.req[i].st = "pending"

\* A spawned request ends, on the tokio runtime, with one of the outcomes
\* of `fates`
RequestComplete(c, i, fates) ==
    /\ ~Crashed
    /\ i \in 1..Len(cyc[c].req)
    /\ Running(cyc[c], i)
    /\ \E o \in fates :
         cyc' = [cyc EXCEPT ![c].req[i] = [@ EXCEPT !.st = "done", !.out = o],
                            ![c].ended = Append(@, i)]
    /\ UNCHANGED <<urls, count, needs_regen, deps, task, value, dirty, view, gen>>

\* A request of a dropped future ends: its join handle is gone and its
\* output is dropped with the task
DetachedComplete(c) ==
    /\ ~Crashed
    /\ cyc[c].detached > 0
    /\ cyc' = [cyc EXCEPT ![c].detached = @ - 1]
    /\ UNCHANGED <<urls, count, needs_regen, deps, task, value, dirty, view, gen>>

\* Lines 60-62: task.await.unwrap() of the handle awaited next, whose task
\* has ended; after the last one the function runs on to join_all
Await(c) ==
    LET cy == cyc[c]
        i == AwaitIndex(cy)
    IN  /\ ~Crashed
        /\ UIIdle
        /\ cy.pc = "await"
        /\ i \in 1..Len(cy.req)
        /\ cy.req[i].st = "done"
        /\ Commit(c,
             IF ~cy.req[i].out.joined
             THEN [cy EXCEPT !.pc = "panicked"]
             ELSE AfterJoin([cy EXCEPT !.req[i].st = "joined",
                                       !.outputs = Append(@, cy.req[i].out.val),
                                       !.next = i + 1]))

\* Lines 64-65: one text() future of join_all ends; after the last one the
\* function runs to its end
DecodeComplete(c, j) ==
    LET cy == cyc[c]
    IN  /\ ~Crashed
        /\ UIIdle
        /\ cy.pc = "decode"
        /\ j \in 1..Len(cy.dec)
        /\ ~cy.dec[j].done
        /\ LET dec == [cy.dec EXCEPT ![j].done = TRUE]
           IN  Commit(c,
                 IF AllDecoded(dec)
                 THEN Finished([cy EXCEPT !.dec = dec], DecodedTexts(dec))
                 ELSE [cy EXCEPT !.dec = dec])

Next ==
    \/ Render
    \/ Click
    \/ \E c \in 1..MaxCycles : Spawn(c)
    \/ \E c \in 1..MaxCycles, i \in 1..MaxUrls : RequestComplete(c, i, AppOutcomes)
    \/ \E c \in 1..MaxCycles : DetachedComplete(c)
    \/ \E c \in 1..MaxCycles : Await(c)
    \/ \E c \in 1..MaxCycles, j \in 1..MaxUrls : DecodeComplete(c, j)

Spec == Init /\ [][Next]_vars

\* One run of fetch_news, the first cycle, over every outcome
NextFetch ==
    \/ Render
    \/ Spawn(1)
    \/ \E i \in 1..MaxUrls : RequestComplete(1, i, Outcomes)
    \/ Await(1)
    \/ \E j \in 1..MaxUrls : DecodeComplete(1, j)

SpecFetch == Init /\ [][NextFetch]_vars

\* One source whose request succeeds with a document of the wider sets:
\* parse, merge, sort and render
InitRender == Init /\ Len(urls) = 1

NextRender ==
    \/ Render
    \/ Spawn(1)
    \/ RequestComplete(1, 1, WideOutcomes)
    \/ Await(1)
    \/ DecodeComplete(1, 1)

SpecRender == InitRender /\ [][NextRender]_vars

---------------------------------------------------------------------------
(* Properties *)

Cycles == 1..MaxCycles

\* The entries a request with outcome o brings in: those of the feed its
\* body parses to, none when the request, the decode or the parse failed
Contribution(o) ==
    IF o.joined /\ o.val.ok /\ o.val.val.decodable /\ o.val.val.text.wellformed
    THEN o.val.val.text.feed.entries
    ELSE <<>>

Occurrences(x, s) == Cardinality({k \in 1..Len(s) : s[k] = x})

\* How often x is brought in by the first n requests
RECURSIVE Brought(_, _, _)
Brought(x, req, n) ==
    IF n = 0 THEN 0
    ELSE Brought(x, req, n - 1) + Occurrences(x, Contribution(req[n].out))

ResultEntries(res) ==
    IF res.some THEN [k \in 1..Len(res.val) |-> res.val[k][2]] ELSE <<>>

KnownEntries == {EntryA1, EntryA2, EntryB1, EntryB2, EntryB3}

\* No task of the cycle that ended so far ended in a JoinError
OnlyTransport(cy) ==
    \A i \in 1..Len(cy.req) :
        cy.req[i].st \in {"done", "joined"} => cy.req[i].out.joined

Contains(s, t) ==
    \E k \in 1..(Len(s) - Len(t) + 1) : SubSeq(s, k, k + Len(t) - 1) = t

\* s is t with some characters left out
RECURSIVE IsSubsequence(_, _)
IsSubsequence(s, t) ==
    IF s = <<>> THEN TRUE
    ELSE IF t = <<>> THEN FALSE
    ELSE IF Head(s) = Head(t) THEN IsSubsequence(Tail(s), Tail(t))
    ELSE IsSubsequence(s, Tail(t))

\* The view shows the entries of `value`
Rendered == ~dirty /\ view.kind = "entries"

\* C1: when every request of a cycle either failed at the transport level
\* or succeeded, fetch_news does not panic, and what it returns holds each
\* entry exactly as often as the feeds obtained from the succeeding sources
\* do (a failed source brings none).
C1_PartialFailure ==
    \A c \in Cycles :
        LET cy == cyc[c]
            got == ResultEntries(cy.result)
        IN  /\ OnlyTransport(cy) => cy.pc # "panicked"
            /\ cy.pc = "done" =>
                 \A x \in KnownEntries \cup {got[k] : k \in 1..Len(got)} :
                     Occurrences(x, got) = Brought(x, cy.req, Len(cy.req))

C1_Witness ==
    /\ cyc[1].pc = "done"
    /\ Len(urls) = 2
    /\ cyc[1].req[1].out = Joined(Err)
    /\ cyc[1].req[2].out = Joined(Ok(TextBody(Document(FeedB))))
    /\ cyc[1].result.some
    /\ Len(cyc[1].result.val) = 3

\* C2: a cycle whose sources bring no entry at all returns None, whatever
\* the cause; Some is never returned with an empty sequence; and None is
\* rendered as the one unavailable message.
C2_TotalFailureUnavailable ==
    /\ \A c \in Cycles :
         LET cy == cyc[c]
         IN  cy.pc = "done" =>
               /\ (\A i \in 1..Len(cy.req) : Contribution(cy.req[i].out) = <<>>)
                    => cy.result = None
               /\ cy.result.some => cy.result.val # <<>>
    /\ value.some /\ value.val.some => value.val.val # <<>>
    /\ value.some /\ ~dirty => (view = Unavailable <=> value.val = None)

C2_Witness ==
    /\ Len(urls) = 2
    /\ cyc[1].pc = "done"
    /\ \A i \in 1..2 : cyc[1].req[i].out = Joined(Ok(TextBody(Garbage)))
    /\ value = Some(None)
    /\ view = Unavailable

\* C3: the entries fetch_news returns are in descending order of
\* publication time, an absent time counting as the epoch.
C3_SortedDescending ==
    \A c \in Cycles :
        cyc[c].pc = "done" /\ cyc[c].result.some =>
            LET es == cyc[c].result.val
            IN  \A k \in 1..(Len(es) - 1) :
                    PublishedOrDefault(es[k][2]) >= PublishedOrDefault(es[k + 1][2])

C3_Witness ==
    /\ cyc[1].pc = "done"
    /\ Len(urls) = 2
    /\ cyc[1].req[1].out = Joined(Ok(TextBody(Document(FeedA))))
    /\ cyc[1].req[2].out = Joined(Ok(TextBody(Document(FeedB))))
    /\ value = Some(cyc[1].result)
    /\ [k \in 1..5 |-> value.val.val[k][2].id] = <<"a2", "b2", "a1", "b1", "b3">>

\* The texts of the sources in the order of the source list
PositionalTexts(req) ==
    FilterOk([i \in 1..Len(req) |->
                IF req[i].out.val.ok THEN TextOf(req[i].out.val.val) ELSE Err])

\* C4: what fetch_news returns is a function of the source list and the
\* per-source outcomes alone: it is the merge, in list order, of what the
\* sources returned, whatever the order in which the requests and the
\* decodes ended.
C4_Deterministic ==
    \A c \in Cycles :
        cyc[c].pc = "done" => cyc[c].result = Aggregate(PositionalTexts(cyc[c].req))

C4_Witness ==
    /\ cyc[1].pc = "done"
    /\ cyc[1].ended = <<2, 1>>
    /\ cyc[1].req[1].out = Joined(Ok(TextBody(Document(FeedA))))
    /\ cyc[1].req[2].out = Joined(Ok(TextBody(Document(FeedB))))
    /\ cyc[1].result.some

\* C5: a future delivers its output only while it is the newest one: once
\* a newer cycle has started, no earlier cycle ever delivers.
C5_NoStaleDelivery ==
    [][\A c \in Cycles :
         cyc[c].pc # "done" /\ cyc'[c].pc = "done"
           => c = gen /\ value' = Some(cyc'[c].result)]_vars

\* A superseded cycle whose requests still run while the newer cycle's
\* result is on the screen
C5_Witness ==
    \E c \in Cycles :
        /\ cyc[c].pc = "dropped"
        /\ cyc[c].detached > 0
        /\ c < gen
        /\ cyc[gen].pc = "done"
        /\ value = Some(cyc[gen].result)
        /\ ~dirty

\* C6 as claimed: whenever a cycle is in flight the view is the loading
\* indicator.
C6_LoadingWheneverInFlight ==
    \A c \in Cycles : InFlight(c) => view = Loading

\* C6, amended: while the first cycle is in flight the view is the loading
\* indicator; while a cycle started by a refresh is in flight the view is
\* never the loading indicator but the last delivered result.
C6_LoadingOnlyFirstCycle ==
    \A c \in Cycles :
        InFlight(c) =>
            IF c = 1
            THEN view = Loading /\ ~value.some
            ELSE view.kind \in {"entries", "unavailable"} /\ value.some

C6_Witness ==
    /\ InFlight(2)
    /\ cyc[2].pc = "await"
    /\ view.kind = "entries"
    /\ view.refresh

\* C7 as claimed: no cycle ever panics, and a cycle that ends returns None
\* or a non-empty sequence.
C7_NoAbort ==
    \A c \in Cycles :
        /\ cyc[c].pc # "panicked"
        /\ cyc[c].pc = "done" =>
             \/ cyc[c].result = None
             \/ cyc[c].result.some /\ cyc[c].result.val # <<>>

\* The feed of the one source of the rendering specification
SourceFeed == cyc[1].req[1].out.val.val.text.feed

\* C8 as claimed: a summary that is shown holds no "href", and is the input
\* summary with characters left out.
C8_NoHrefRemains ==
    Rendered =>
        \A k \in 1..Len(view.items) :
            LET e == value.val.val[k][2]
            IN  e.summary.some =>
                  /\ ~Contains(view.items[k].summary, HREF)
                  /\ IsSubsequence(view.items[k].summary, e.summary.val)

\* C9: an absent title, summary or link is shown as "N/A", an absent
\* publication time as the epoch, an absent feed title as "N/A"; a field
\* that is present is shown from its content.
C9_Fallbacks ==
    Rendered =>
        \A k \in 1..Len(view.items) :
            LET e == value.val.val[k][2]
                it == view.items[k]
            IN  /\ it.title = IF e.title.some THEN e.title.val ELSE NA
                /\ ~e.summary.some => it.summary = NA
                /\ e.summary.some =>
                     /\ IsSubsequence(it.summary, e.summary.val)
                     /\ ~Contains(e.summary.val, HREF) => it.summary = e.summary.val
                /\ it.link = IF e.links = <<>> THEN NA ELSE e.links[1]
                /\ it.published = IF e.published.some THEN e.published.val ELSE 0
                /\ value.val.val[k][1] =
                     IF SourceFeed.title.some THEN SourceFeed.title.val ELSE NA
                /\ ~SourceFeed.title.some => it.category = NA

C9_Witness ==
    /\ Rendered
    /\ SourceFeed = MkFeed(None, <<MkEntry("w", None, None, <<>>, None)>>)
    /\ view.items =
         <<[title |-> NA, summary |-> NA, link |-> NA, category |-> NA,
            published |-> 0]>>

\* C10: the source title shown is the feed title when that has at most
\* 100 characters, and its first 100 characters otherwise.
C10_TitleTruncated ==
    Rendered /\ SourceFeed.title.some =>
        \A k \in 1..Len(view.items) :
            LET t == SourceFeed.title.val
                shown == view.items[k].category
            IN  IF Len(t) > TitleMax
                THEN /\ Len(shown) = TitleMax
                     /\ \A i \in 1..TitleMax : shown[i] = t[i]
                ELSE shown = t

C10_Witness ==
    /\ Rendered
    /\ SourceFeed.title.some
    /\ Len(SourceFeed.title.val) = TitleMax + 2
    /\ Len(view.items[1].category) = TitleMax


\* C11: a cycle that delivered its result has no pending request: every
\* request of the source list was dispatched and awaited before.
C11_NoEarlyReturn ==
    \A c \in Cycles :
        cyc[c].pc = "done" /\ c = gen =>
            /\ Len(cyc[c].req) = Len(urls)
            /\ \A i \in 1..Len(cyc[c].req) : cyc[c].req[i].st = "joined"

\* Delivered after a failure in first place and a success in second
C11_Witness ==
    /\ cyc[1].pc = "done"
    /\ Len(urls) = 2
    /\ cyc[1].req[1].out = Joined(Err)
    /\ cyc[1].req[2].out = Joined(Ok(TextBody(Document(FeedA))))
    /\ \A i \in 1..2 : cyc[1].req[i].st = "joined"
    /\ value = Some(cyc[1].result)


\* The request with outcome o was answered, decoded and parsed
Obtained(o) ==
    o.joined /\ o.val.ok /\ o.val.val.decodable /\ o.val.val.text.wellformed

\* How often x occurs in the feeds of the positions, among the first n, that
\* incl takes in
RECURSIVE TakenIn(_, _, _, _)
TakenIn(x, req, incl, n) ==
    IF n = 0 THEN 0
    ELSE TakenIn(x, req, incl, n - 1)
         + (IF incl[n] THEN Occurrences(x, Contribution(req[n].out)) ELSE 0)

\* C12: what a cycle delivers is made of whole feeds: there is a choice of
\* positions of the source list, none of them a position whose request,
\* decode or parse failed, such that the delivered entries are all the
\* entries of the feeds of the chosen positions and no others.
C12_AllOrNothing ==
    \A c \in Cycles :
        LET cy  == cyc[c]
            n   == Len(cy.req)
            got == ResultEntries(cy.result)
        IN  cy.pc = "done" /\ n > 0 =>
                \E incl \in [1..n -> BOOLEAN] :
                    /\ \A i \in 1..n : incl[i] => Obtained(cy.req[i].out)
                    /\ \A x \in KnownEntries \cup {got[k] : k \in 1..Len(got)} :
                           Occurrences(x, got) = TakenIn(x, cy.req, incl, n)

\* One source failed to parse, the other brought its three entries
C12_Witness ==
    /\ cyc[1].pc = "done"
    /\ Len(cyc[1].req) = 2
    /\ cyc[1].req[1].out = Joined(Ok(TextBody(Garbage)))
    /\ cyc[1].req[2].out = Joined(Ok(TextBody(Document(FeedB))))
    /\ Len(ResultEntries(cyc[1].result)) = 3


\* C13: the requests a cycle has sent are, in order, the urls of the source
\* list up to the position the spawn loop has reached, and from the end of
\* the loop on exactly the list, one request per position, a url listed
\* twice being requested twice; no request is sent after that, whatever the
\* requests' outcomes.
C13_OneRequestPerPosition ==
    \A c \in Cycles :
        LET cy == cyc[c]
        IN  /\ cy.pc = "idle" => cy.sent = <<>>
            /\ cy.pc = "spawn" => cy.sent = SubSeq(urls, 1, cy.next - 1)
            /\ cy.pc \notin {"idle", "spawn"} => cy.sent = urls

\* The second cycle delivered with one url listed twice, requested twice,
\* the first request having failed
C13_Witness ==
    /\ urls = <<"u1", "u1">>
    /\ cyc[2].pc = "done"
    /\ cyc[2].sent = <<"u1", "u1">>
    /\ cyc[2].req[1].out = Joined(Err)
    /\ cyc[2].req[2].out = Joined(Ok(TextBody(Document(FeedA))))


\* C14: the spawn loop goes on whatever the state of the requests spawned
\* so far, every request of the list is spawned before the first await, and
\* a request that runs can end whatever the state of the other requests.
C14_IndependentRequests ==
    \A c \in Cycles :
        LET cy == cyc[c]
        IN  ~Crashed =>
            /\ cy.pc = "spawn" => ENABLED Spawn(c)
            /\ cy.pc \in {"await", "decode", "done"} =>
                   \A i \in 1..Len(cy.req) : cy.req[i].st # "idle"
            /\ \A i \in 1..Len(cy.req) :
                   cy.req[i].st = "pending" => ENABLED RequestComplete(c, i, Outcomes)

\* The second request has ended, the first, awaited first, still runs
C14_Witness ==
    /\ cyc[1].pc = "await"
    /\ Len(cyc[1].req) = 2
    /\ cyc[1].req[1].st = "pending"
    /\ cyc[1].req[2].st = "done"
    /\ ENABLED RequestComplete(1, 1, Outcomes)


\* C15: a decode exists only once every request of the cycle was joined, the
\* texts are parsed (the cycle is done) only once every decode has ended,
\* and the decodes of all the successful responses are under way together,
\* each of them done or not on its own.
C15_StagesInOrder ==
    \A c \in Cycles :
        LET cy == cyc[c]
        IN  /\ cy.pc = "decode" \/ cy.dec # <<>> =>
                   \A i \in 1..Len(cy.req) : cy.req[i].st = "joined"
            /\ cy.pc = "done" => \A j \in 1..Len(cy.dec) : cy.dec[j].done
            /\ cy.pc = "decode" =>
                   Len(cy.dec) = Cardinality({i \in 1..Len(cy.req) :
                                                  cy.req[i].out.val.ok})

\* Two bodies being decoded, the second done before the first
C15_Witness ==
    /\ cyc[1].pc = "decode"
    /\ Len(cyc[1].dec) = 2
    /\ ~cyc[1].dec[1].done
    /\ cyc[1].dec[2].done
    /\ \A i \in 1..2 : cyc[1].req[i].st = "joined"


\* C16: the cycles started are the one of the first run of App and one for
\* every refresh action that App has run after: none before the first run,
\* then one more than the refresh actions, less the one at most whose run
\* of App is still to come; a delivery, whatever it is, starts none.
C16_CyclesFollowRefresh ==
    /\ needs_regen => gen = 0 /\ count = 0
    /\ ~needs_regen => gen = deps + 1 /\ count - deps \in {0, 1}
    /\ ~needs_regen /\ ~dirty => gen = count + 1

\* Two refresh actions, the third cycle under way, the second delivered
C16_Witness ==
    /\ count = 2
    /\ gen = 3
    /\ ~dirty
    /\ InFlight(3)
    /\ cyc[2].pc = "done"


\* future.value() is Some(None): the last delivery was the unavailable signal
UnavailableDelivered == value.some /\ ~value.val.some

RECURSIVE InListOrder(_, _)
InListOrder(req, n) ==
    IF n = 0 THEN <<>>
    ELSE InListOrder(req, n - 1) \o Contribution(req[n].out)

\* The entries of s whose publication time, or the default, is t
RECURSIVE PublishedAt(_, _)
PublishedAt(s, t) ==
    IF s = <<>> THEN <<>>
    ELSE IF PublishedOrDefault(Head(s)) = t
         THEN <<Head(s)>> \o PublishedAt(Tail(s), t)
         ELSE PublishedAt(Tail(s), t)

\* C18: in what a cycle delivers, the entries of one publication time (the
\* default standing for an absent one) are in the order of their sources in
\* the source list and, within a source, of the feed, whatever the order in
\* which the requests ended.
C18_TiesInListOrder ==
    \A c \in Cycles :
        LET cy  == cyc[c]
            got == ResultEntries(cy.result)
            all == InListOrder(cy.req, Len(cy.req))
        IN  cy.pc = "done" /\ cy.req # <<>> =>
                \A t \in {PublishedOrDefault(all[k]) : k \in 1..Len(all)} :
                    PublishedAt(got, t) = PublishedAt(all, t)

\* The second source answered first; the first source's entries come first
\* among those of time 2, and b1 (no time) before b3 (time 0)
C18_Witness ==
    /\ cyc[1].pc = "done"
    /\ cyc[1].ended = <<2, 1>>
    /\ cyc[1].req[1].out = Joined(Ok(TextBody(Document(FeedB))))
    /\ cyc[1].req[2].out = Joined(Ok(TextBody(Document(FeedA))))
    /\ ResultEntries(cyc[1].result) = <<EntryB2, EntryA2, EntryA1, EntryB1, EntryB3>>


\* The newest cycle has come to rest: none of its requests runs, it is not
\* waiting for a decode, and its future has no step to take
AtRest(c) ==
    /\ c = gen
    /\ \A i \in 1..Len(cyc[c].req) : ~Running(cyc[c], i)
    /\ cyc[c].pc # "decode"
    /\ ~ENABLED Spawn(c)
    /\ ~ENABLED Await(c)

\* C19 as claimed: a cycle that is not superseded and whose requests and
\* decodes have all come to an end does not come to rest before it has
\* delivered entries or the unavailable signal; and a cycle that delivered
\* has no request still pending.
C19_EndsInDelivery ==
    \A c \in Cycles :
        /\ AtRest(c) => cyc[c].pc = "done" /\ value = Some(cyc[c].result)
        /\ cyc[c].pc = "done" =>
               \A i \in 1..Len(cyc[c].req) : cyc[c].req[i].st # "pending"

====
